---- MODULE Spec2Model ----
(***************************************************************************)
(* Linear epistasis models of epistasis/models/linear.py:                  *)
(* LocalEpistasisModel and GlobalEpistasisModel (construction, fit,        *)
(* fit_error) and the helper cut_interaction_labels.                       *)
(*                                                                         *)
(* Numbers.  numpy works on floats; the model works on exact rationals     *)
(* <<num, den>> in lowest terms with den > 0.  Phenotypes and errors are   *)
(* small integers (the fixture's 0.1 .. 1.0 are counted in tenths), the    *)
(* design matrices have entries in {-1, 0, 1}, so every float the code     *)
(* computes on these inputs is the exact rational.  np.sqrt(r) is kept as  *)
(* the symbolic value Sqrt(r), whose square is r.                          *)
(*                                                                         *)
(* A genotype "010" is the sequence <<0, 1, 0>>; site i of a label is the  *)
(* i-th character of the genotype string.  An attribute that was never     *)
(* set (None) is the empty sequence; no vector or matrix of a constructed  *)
(* model is empty.                                                         *)
(***************************************************************************)
EXTENDS Integers, Sequences, FiniteSets, TLC

VARIABLES
    model,        \* "local" (LocalEpistasisModel) or "global" (GlobalEpistasisModel)
    pc,           \* "new": not constructed; "ready": __init__ returned; "failed": __init__ raised
    wildtype,     \* self.wildtype, binary encoded
    genotypes,    \* self.Binary.genotypes
    phenotypes,   \* self.Binary.phenotypes
    errors,       \* self.Binary.errors, None when errors=None was passed
    order,        \* self.order
    labels,       \* self.Interactions.labels
    X,            \* self.X
    X_inv,        \* self.X_inv, None until np.linalg.inv returned
    values,       \* self.Interactions.values, None until fit()
    ierrors,      \* self.Interactions.errors, None until fit_error()
    last,         \* the last call: "none", "init", "fit", "fit_error", "cut", "recut"
    outcome,      \* how the last call ended: "ok" or "error"
    cutIn,        \* cut_interaction_labels: the labels argument
    cutOrder,     \* cut_interaction_labels: the order argument
    cutOut,       \* cut_interaction_labels: the returned list
    cutAgain      \* the list returned for (cutOut, cutOrder)

vars == <<model, pc, wildtype, genotypes, phenotypes, errors, order, labels,
          X, X_inv, values, ierrors, last, outcome, cutIn, cutOrder, cutOut, cutAgain>>

\* what __init__ sets
initVars == <<model, pc, wildtype, genotypes, phenotypes, errors, order, labels, X, X_inv>>

cutVars == <<cutIn, cutOrder, cutOut, cutAgain>>

None == <<>>

-----------------------------------------------------------------------------
(* Bounds *)

MaxSites == 2      \* sequence lengths 1..MaxSites (the fixture adds length 3)
MaxPheno == 3      \* phenotype values 0..MaxPheno
MaxErr == 2        \* phenotype errors 0..MaxErr
MaxCutSites == 4   \* cut_interaction_labels: label lists of 0..MaxCutSites sites

-----------------------------------------------------------------------------
(* Exact rationals *)

Abs(a) == IF a < 0 THEN -a ELSE a

RECURSIVE GCD(_, _)
GCD(a, b) == IF b = 0 THEN a ELSE GCD(b, a % b)

Rat(num, den) ==
    LET g == GCD(Abs(num), Abs(den))
        s == IF den < 0 THEN -1 ELSE 1
    IN  <<(s * num) \div g, (s * den) \div g>>

RatInt(a) == <<a, 1>>
RatAdd(p, q) == Rat(p[1] * q[2] + q[1] * p[2], p[2] * q[2])
RatMul(p, q) == Rat(p[1] * q[1], p[2] * q[2])

RECURSIVE RatSum(_, _)
RatSum(f, k) == IF k = 0 THEN RatInt(0) ELSE RatAdd(RatSum(f, k - 1), f[k])

\* np.dot(M, v) of a matrix of rationals and a vector of rationals
Dot(M, v) ==
    [i \in 1..Len(M) |-> RatSum([j \in 1..Len(v) |-> RatMul(M[i][j], v[j])], Len(v))]

RatMatrix(M) == [i \in 1..Len(M) |-> [j \in 1..Len(M[i]) |-> RatInt(M[i][j])]]
RatVector(v) == [i \in 1..Len(v) |-> RatInt(v[i])]

\* np.sqrt(r), kept symbolic
Sqrt(r) == [sqrt_of |-> r]
Square(s) == s.sqrt_of

-----------------------------------------------------------------------------
(* Interaction labels and the design matrix *)

\* all strictly increasing s-tuples over lo..n, in lexicographic order
RECURSIVE Combinations(_, _, _)
Combinations(lo, n, s) ==
    IF s = 0 THEN << <<>> >>
    ELSE IF lo > n THEN <<>>
    ELSE LET tails == Combinations(lo + 1, n, s - 1)
         IN  [i \in 1..Len(tails) |-> <<lo>> \o tails[i]] \o Combinations(lo + 1, n, s)

\* the labels of size 0..k over sites 1..n: ascending size, lexicographic
\* within a size; the intercept is the empty label
RECURSIVE EnumerateLabels(_, _)
EnumerateLabels(n, k) ==
    IF k = 0 THEN << <<>> >>
    ELSE EnumerateLabels(n, k - 1) \o Combinations(1, n, k)

\* self._construct_interactions(): the labels up to self.order
construct_interactions(length, ord) == EnumerateLabels(length, ord)

RECURSIVE Product(_, _)
Product(f, k) == IF k = 0 THEN 1 ELSE Product(f, k - 1) * f[k]

\* X[g][L] = product over the sites s of label L of encoding[genotype g at s]
generate_dv_matrix(gs, ls, encoding) ==
    [g \in 1..Len(gs) |->
        [l \in 1..Len(ls) |->
            Product([s \in 1..Len(ls[l]) |-> encoding[gs[g][ls[l][s]]]], Len(ls[l]))]]

\* variants of the local encoding: the global one, and the two characters exchanged
HadamardForLocal == (1 :> 1) @@ (0 :> -1)
ExchangedEncoding == (1 :> 0) @@ (0 :> 1)

LocalEncoding == (1 :> 1) @@ (0 :> 0)
GlobalEncoding == (1 :> 1) @@ (0 :> -1)

-----------------------------------------------------------------------------
(* np.linalg.inv *)

IsSquare(M) == \A i \in 1..Len(M) : Len(M[i]) = Len(M)

Augmented(M) ==
    [i \in 1..Len(M) |->
        [j \in 1..(2 * Len(M)) |->
            IF j <= Len(M) THEN M[i][j] ELSE IF j - Len(M) = i THEN 1 ELSE 0]]

SwapRows(A, a, b) ==
    [i \in 1..Len(A) |-> IF i = a THEN A[b] ELSE IF i = b THEN A[a] ELSE A[i]]

\* Fraction-free Gauss-Jordan elimination of the augmented matrix [M | I]
\* with row pivoting: it ends in [d*I | d*M^-1] with d = +-det(M), or finds
\* a column without a pivot (M is singular).
RECURSIVE Eliminate(_, _, _)
Eliminate(A, k, prev) ==
    LET N == Len(A)
        cand == {i \in k..N : A[i][k] # 0}
    IN  IF k > N THEN [singular |-> FALSE, aug |-> A, d |-> prev]
        ELSE IF cand = {} THEN [singular |-> TRUE, aug |-> A, d |-> 0]
        ELSE LET r == CHOOSE i \in cand : \A o \in cand : i <= o
                 B == SwapRows(A, k, r)
                 piv == B[k][k]
                 C == [i \in 1..N |->
                        IF i = k THEN B[k]
                        ELSE [j \in 1..(2 * N) |->
                                (piv * B[i][j] - B[i][k] * B[k][j]) \div prev]]
             IN  Eliminate(C, k + 1, piv)

\* variant: a singular matrix yields a matrix of zeros instead of LinAlgError
invSilent(M) ==
    IF ~IsSquare(M) THEN [raised |-> TRUE, result |-> None]
    ELSE LET e == Eliminate(Augmented(M), 1, 1)
             N == Len(M)
         IN  [raised |-> FALSE,
              result |-> [i \in 1..N |-> [j \in 1..N |->
                            IF e.singular THEN RatInt(0) ELSE Rat(e.aug[i][N + j], e.d)]]]

\* np.linalg.inv(M): LinAlgError for a matrix that is not square or is
\* singular, the inverse otherwise
inv(M) ==
    IF ~IsSquare(M) THEN [raised |-> TRUE, result |-> None]
    ELSE LET e == Eliminate(Augmented(M), 1, 1)
             N == Len(M)
         IN  IF e.singular THEN [raised |-> TRUE, result |-> None]
             ELSE [raised |-> FALSE,
                   result |-> [i \in 1..N |-> [j \in 1..N |-> Rat(e.aug[i][N + j], e.d)]]]

-----------------------------------------------------------------------------
(* The inputs of a construction: binary genotypes, phenotypes, errors *)

\* the test fixture gpm(), phenotypes and stdeviations in tenths
FixtureWildtype == <<0, 0, 0>>
FixtureGenotypes ==
    << <<0, 0, 0>>, <<0, 0, 1>>, <<0, 1, 0>>, <<1, 0, 0>>,
       <<0, 1, 1>>, <<1, 0, 1>>, <<1, 1, 0>>, <<1, 1, 1>> >>
FixturePhenotypes == <<1, 1, 5, 4, 2, 8, 5, 10>>
FixtureStdeviations == [i \in 1..8 |-> 1]

Range(f) == {f[i] : i \in DOMAIN f}

\* the genotype whose mutated sites are those of label l
GenotypeOf(l, n) == [s \in 1..n |-> IF s \in Range(l) THEN 1 ELSE 0]

\* the mutated sites of a genotype
Mutated(g) == {s \in 1..Len(g) : g[s] = 1}

\* every genotype of n sites once, the i-th mutated at the sites of label i
CanonicalGenotypes(n) ==
    LET ls == EnumerateLabels(n, n)
    IN  [i \in 1..Len(ls) |-> GenotypeOf(ls[i], n)]

RelabelSites(gs, perm) ==
    [i \in 1..Len(gs) |-> [s \in 1..Len(gs[i]) |-> gs[i][perm[s]]]]

\* positions k and k+1 exchanged
SwapAdjacent(gs, k) ==
    [i \in 1..Len(gs) |->
        IF i = k THEN gs[k + 1] ELSE IF i = k + 1 THEN gs[k] ELSE gs[i]]

DropLast(gs) == SubSeq(gs, 1, Len(gs) - 1)
RepeatFirst(gs) == [i \in 1..Len(gs) |-> IF i = Len(gs) THEN gs[1] ELSE gs[i]]

\* complete designs of n sites, every genotype once: the canonical order
\* under every renaming of the sites, and with two neighbours exchanged
CompleteLists(n) ==
    {RelabelSites(CanonicalGenotypes(n), perm) : perm \in Permutations(1..n)}
        \cup {SwapAdjacent(CanonicalGenotypes(n), k) :
                k \in 1..(Len(CanonicalGenotypes(n)) - 1)}

\* a genotype missing (fewer genotypes than labels), a genotype twice
DefectiveLists(n) ==
    {DropLast(RelabelSites(CanonicalGenotypes(n), perm)) : perm \in Permutations(1..n)}
        \cup {RepeatFirst(RelabelSites(CanonicalGenotypes(n), perm)) : perm \in Permutations(1..n)}

GenotypeLists ==
    UNION {CompleteLists(n) \cup DefectiveLists(n) : n \in 1..MaxSites}
        \cup {FixtureGenotypes}

Uniform(N, v) == [i \in 1..N |-> v]
Bump(N, k, h) == [i \in 1..N |-> IF i = k THEN h ELSE 0]

\* one level everywhere, or one genotype standing out; the fixture's vector
PhenotypeVectors(N) ==
    {Uniform(N, v) : v \in 0..MaxPheno}
        \cup {Bump(N, k, h) : k \in 1..N, h \in 1..MaxPheno}
        \cup (IF N = Len(FixturePhenotypes) THEN {FixturePhenotypes} ELSE {})

ErrorVectors(N) ==
    {Uniform(N, e) : e \in 0..MaxErr}
        \cup {Bump(N, k, e) : k \in 1..N, e \in 1..MaxErr}
        \cup (IF N = Len(FixtureStdeviations) THEN {FixtureStdeviations} ELSE {})

\* (phenotypes, errors): the phenotypes vary with errors absent or uniform,
\* the errors vary under uniform phenotypes
ModelInputs(N) ==
    {<<ps, es>> : ps \in PhenotypeVectors(N), es \in {None, Uniform(N, MaxErr)}}
        \cup {<<Uniform(N, MaxPheno), es>> : es \in ErrorVectors(N)}

-----------------------------------------------------------------------------
(* LocalEpistasisModel and GlobalEpistasisModel *)

Encoding(m) == IF m = "local" THEN LocalEncoding ELSE GlobalEncoding

\* __init__, after BaseModel.__init__ stored the inputs: order is the
\* sequence length, the labels are enumerated, X is built and inverted
Design(m, gs) ==
    LET length == Len(gs[1])
        ls == construct_interactions(length, length)
        x == generate_dv_matrix(gs, ls, Encoding(m))
    IN  [length |-> length, labels |-> ls, X |-> x, inverse |-> inv(x)]

\* __init__.  An exception of np.linalg.inv leaves __init__: no model
\* object exists, fit() and fit_error() cannot be called.
Construct ==
    /\ pc = "new"
    /\ \E m \in {"local", "global"}, gs \in GenotypeLists :
        LET d == Design(m, gs)
        IN  \E in \in ModelInputs(Len(gs)) :
                /\ model' = m
                /\ wildtype' = [s \in 1..d.length |-> 0]
                /\ genotypes' = gs
                /\ phenotypes' = in[1]
                /\ errors' = in[2]
                /\ order' = d.length
                /\ labels' = d.labels
                /\ X' = d.X
                /\ X_inv' = d.inverse.result
                /\ pc' = IF d.inverse.raised THEN "failed" ELSE "ready"
                /\ outcome' = IF d.inverse.raised THEN "error" ELSE "ok"
    /\ last' = "init"
    /\ UNCHANGED <<values, ierrors, cutVars>>

\* self.n of the genotype-phenotype map: the number of genotypes
n_(gs) == Len(gs)

\* variant: np.dot(phenotypes, X_inv), the operands exchanged
LocalFitExchanged(xi, ps) ==
    [j \in 1..Len(ps) |->
        RatSum([i \in 1..Len(ps) |-> RatMul(RatInt(ps[i]), xi[i][j])], Len(ps))]

\* LocalEpistasisModel.fit
LocalFit(xi, ps) == Dot(xi, RatVector(ps))

\* GlobalEpistasisModel.fit: 1/(self.n) * np.dot(X_inv, phenotypes), with the
\* true division of Python 3
GlobalFit(xi, ps, n) ==
    LET raw == Dot(xi, RatVector(ps))
    IN  [i \in 1..Len(raw) |-> RatMul(Rat(1, n), raw[i])]

\* variant: fit() also discards the errors of an earlier fit_error()
FitDiscardingErrors ==
    /\ pc = "ready"
    /\ values' = IF model = "local" THEN LocalFit(X_inv, phenotypes)
                 ELSE GlobalFit(X_inv, phenotypes, n_(genotypes))
    /\ ierrors' = None
    /\ last' = "fit"
    /\ outcome' = "ok"
    /\ UNCHANGED <<initVars, cutVars>>

Fit ==
    /\ pc = "ready"
    /\ values' = IF model = "local" THEN LocalFit(X_inv, phenotypes)
                 ELSE GlobalFit(X_inv, phenotypes, n_(genotypes))
    /\ last' = "fit"
    /\ outcome' = "ok"
    /\ UNCHANGED <<initVars, ierrors, cutVars>>

\* errors**2, elementwise
Squares(es) == [i \in 1..Len(es) |-> RatInt(es[i] * es[i])]

\* LocalEpistasisModel.fit_error: np.sqrt(np.dot(X, errors**2))
LocalFitError(x, es) ==
    LET radicand == Dot(RatMatrix(x), Squares(es))
    IN  [i \in 1..Len(radicand) |-> Sqrt(radicand[i])]

\* variant: X in place of abs(X)
GlobalFitErrorSigned(x, es, n) ==
    LET scaled == [i \in 1..Len(x) |->
                    [j \in 1..Len(x[i]) |-> RatMul(Rat(1, n * n), RatInt(x[i][j]))]]
        radicand == Dot(scaled, Squares(es))
    IN  [i \in 1..Len(radicand) |-> Sqrt(radicand[i])]

\* GlobalEpistasisModel.fit_error: np.sqrt(np.dot((1/n)**2 * abs(X), errors**2))
GlobalFitError(x, es, n) ==
    LET scaled == [i \in 1..Len(x) |->
                    [j \in 1..Len(x[i]) |-> RatMul(Rat(1, n * n), RatInt(Abs(x[i][j])))]]
        radicand == Dot(scaled, Squares(es))
    IN  [i \in 1..Len(radicand) |-> Sqrt(radicand[i])]

\* variant: absent errors are taken as zeros
FitErrorDefaultingToZero ==
    /\ pc = "ready"
    /\ outcome' = "ok"
    /\ LET es == IF errors = None THEN Uniform(Len(genotypes), 0) ELSE errors
       IN  ierrors' = IF model = "local" THEN LocalFitError(X, es)
                      ELSE GlobalFitError(X, es, n_(genotypes))
    /\ last' = "fit_error"
    /\ UNCHANGED <<initVars, values, cutVars>>

\* fit_error: errors**2 raises TypeError when errors is None, before anything
\* is assigned
FitError ==
    /\ pc = "ready"
    /\ IF errors = None
       THEN /\ outcome' = "error"
            /\ UNCHANGED ierrors
       ELSE /\ outcome' = "ok"
            /\ ierrors' = IF model = "local" THEN LocalFitError(X, errors)
                          ELSE GlobalFitError(X, errors, n_(genotypes))
    /\ last' = "fit_error"
    /\ UNCHANGED <<initVars, values, cutVars>>

Init ==
    /\ model = "none"
    /\ pc = "new"
    /\ wildtype = None
    /\ genotypes = None
    /\ phenotypes = None
    /\ errors = None
    /\ order = 0
    /\ labels = None
    /\ X = None
    /\ X_inv = None
    /\ values = None
    /\ ierrors = None
    /\ last = "none"
    /\ outcome = "ok"
    /\ cutIn = None
    /\ cutOrder = 0
    /\ cutOut = None
    /\ cutAgain = None

Next == Construct \/ Fit \/ FitError

Spec == Init /\ [][Next]_vars

-----------------------------------------------------------------------------
(* cut_interaction_labels *)

\* variant: len(l) < order
cut_below_order(ls, ord) == SelectSeq(ls, LAMBDA l : Len(l) < ord)

\* [l for l in labels if len(l) <= order]: a new list, labels is not touched
cut_interaction_labels(ls, ord) == SelectSeq(ls, LAMBDA l : Len(l) <= ord)

\* pre-built label lists: n sites enumerated up to order m
LabelLists == UNION {{EnumerateLabels(n, m) : m \in 0..n} : n \in 0..MaxCutSites}

InitCut ==
    /\ model = "none"
    /\ pc = "new"
    /\ wildtype = None
    /\ genotypes = None
    /\ phenotypes = None
    /\ errors = None
    /\ order = 0
    /\ labels = None
    /\ X = None
    /\ X_inv = None
    /\ values = None
    /\ ierrors = None
    /\ last = "none"
    /\ outcome = "ok"
    /\ cutIn \in LabelLists
    /\ cutOrder = 0
    /\ cutOut = None
    /\ cutAgain = None

\* out = cut_interaction_labels(labels, k)
Cut ==
    /\ last = "none"
    /\ \E k \in 0..(MaxCutSites + 1) :
        /\ cutOrder' = k
        /\ cutOut' = cut_interaction_labels(cutIn, k)
    /\ last' = "cut"
    /\ UNCHANGED <<initVars, values, ierrors, outcome, cutIn, cutAgain>>

\* again = cut_interaction_labels(out, k)
Recut ==
    /\ last = "cut"
    /\ cutAgain' = cut_interaction_labels(cutOut, cutOrder)
    /\ last' = "recut"
    /\ UNCHANGED <<initVars, values, ierrors, outcome, cutIn, cutOrder, cutOut>>

NextCut == Cut \/ Recut

SpecCut == InitCut /\ [][NextCut]_vars

-----------------------------------------------------------------------------
(* Properties *)

Fitted == pc = "ready" /\ values # None
ErrorsFitted == pc = "ready" /\ ierrors # None

\* X . c, row for row
Predicted(x, c) == Dot(RatMatrix(x), c)

\* the number of mutated sites of a genotype
MutationCount(g) == Cardinality(Mutated(g))

SortedByMutationCount(gs) ==
    \A i \in 1..Len(gs), j \in 1..Len(gs) :
        i < j => MutationCount(gs[i]) <= MutationCount(gs[j])

\* the i-th genotype is mutated at exactly the sites of the i-th label
AlignedWithLabels(gs, ls) ==
    /\ Len(gs) = Len(ls)
    /\ \A i \in 1..Len(gs) : Mutated(gs[i]) = Range(ls[i])

LowerUnitTriangular(M) ==
    \A i \in 1..Len(M) : \A j \in 1..Len(M[i]) :
        /\ (j > i => M[i][j] = 0)
        /\ (j = i => M[i][j] = 1)

HasDuplicate(gs) == \E i \in 1..Len(gs), j \in 1..Len(gs) : i < j /\ gs[i] = gs[j]

IndexOf(seq, x) == CHOOSE i \in 1..Len(seq) : seq[i] = x

\* the np.linalg.inv result is the inverse: X . X_inv is the identity
InverseIsInverse ==
    pc = "ready" =>
        \A i \in 1..Len(X), j \in 1..Len(X) :
            RatSum([k \in 1..Len(X) |-> RatMul(RatInt(X[i][k]), X_inv[k][j])], Len(X))
                = RatInt(IF i = j THEN 1 ELSE 0)

\* C1: LocalEpistasisModel, complete design: after fit() the coefficients
\* reproduce the phenotypes, X . c = phenotypes row for row.
C1_LocalRoundTrip ==
    (model = "local" /\ Fitted) => Predicted(X, values) = RatVector(phenotypes)

C1_Witness ==
    /\ model = "local" /\ Fitted /\ last = "fit"
    /\ genotypes = FixtureGenotypes /\ phenotypes = FixturePhenotypes

\* C2: GlobalEpistasisModel, complete design: after fit(), with
\* c = (1/N) * X_inv . phenotypes, X . c = phenotypes row for row.
C2_GlobalRoundTrip ==
    (model = "global" /\ Fitted) => Predicted(X, values) = RatVector(phenotypes)

\* C3: LocalEpistasisModel.fit_error: the squared error of label L is the sum
\* over the genotypes g of X_inv[L][g]^2 * err[g]^2, in every genotype order.
C3_LocalErrorPropagation ==
    (model = "local" /\ ErrorsFitted) =>
        \A l \in 1..Len(labels) :
            Square(ierrors[l]) =
                RatSum([g \in 1..Len(genotypes) |->
                          RatMul(RatMul(X_inv[l][g], X_inv[l][g]),
                                 RatInt(errors[g] * errors[g]))],
                       Len(genotypes))

\* C4: fit_error() on a model constructed with errors=None ends in an error;
\* the error vector stays unset and the coefficients are as before the call.
C4_FitErrorNeedsErrors ==
    [][(pc = "ready" /\ errors = None /\ last' = "fit_error") =>
          (outcome' = "error" /\ ierrors = None /\ ierrors' = None /\ values' = values)]_vars

C4_Witness ==
    /\ pc = "ready" /\ errors = None /\ last = "fit_error" /\ outcome = "error"
    /\ values # None /\ ierrors = None

\* C5: a design that is not square (genotype count differs from label count)
\* or is singular (a genotype twice) fails at construction: X_inv never
\* exists for it and no coefficient or error vector is ever produced.
C5_BadDesignFailsAtConstruction ==
    (last # "none" /\ (Len(genotypes) # Len(labels) \/ HasDuplicate(genotypes))) =>
        /\ pc = "failed" /\ outcome = "error"
        /\ X_inv = None /\ values = None /\ ierrors = None

C5_Witness ==
    /\ pc = "failed" /\ last = "init"
    /\ Len(genotypes) = Len(labels) /\ HasDuplicate(genotypes)

\* C6: LocalEpistasisModel, complete design, all-zero wildtype: after fit()
\* the intercept is the wildtype's phenotype and the coefficient of label (i,)
\* is phenotype(single mutant at i) - phenotype(wildtype), in every order of
\* the genotypes.
C6_LocalFirstOrder ==
    (model = "local" /\ Fitted /\ \A s \in 1..Len(wildtype) : wildtype[s] = 0) =>
        LET wt == IndexOf(genotypes, wildtype)
        IN  /\ values[IndexOf(labels, <<>>)] = RatInt(phenotypes[wt])
            /\ \A s \in 1..Len(wildtype) :
                 values[IndexOf(labels, <<s>>)] =
                    RatInt(phenotypes[IndexOf(genotypes, GenotypeOf(<<s>>, Len(wildtype)))]
                             - phenotypes[wt])

C6_Witness ==
    /\ model = "local" /\ Fitted /\ wildtype = FixtureWildtype
    /\ genotypes = FixtureGenotypes /\ phenotypes = FixturePhenotypes
    /\ values[2] = RatInt(3) /\ values[3] = RatInt(4) /\ values[4] = RatInt(0)

\* C7: after construction no call changes X, X_inv, the labels, the order or
\* the inputs; fit() changes only the coefficients, fit_error() only the
\* errors, and a repeated call yields the vector of the first call.
C7_Frame ==
    [][pc = "ready" =>
          /\ initVars' = initVars
          /\ (last' = "fit" =>
                /\ ierrors' = ierrors
                /\ (values # None => values' = values))
          /\ (last' = "fit_error" =>
                /\ values' = values
                /\ (ierrors # None => ierrors' = ierrors))]_vars

C7_Witness ==
    /\ pc = "ready" /\ last = "fit" /\ values # None /\ ierrors # None

\* C8: cut_interaction_labels of the full label list of n sites at order
\* k <= n is the list enumerated up to order k, the intercept included also
\* for k = 0; the argument is as it was, cutting the result again at k
\* returns the result.
C8_CutIsEnumeration ==
    \A n \in 0..MaxCutSites :
        (last \in {"cut", "recut"} /\ cutIn = EnumerateLabels(n, n) /\ cutOrder <= n) =>
            /\ cutOut = EnumerateLabels(n, cutOrder)
            /\ cutOut[1] = <<>>
            /\ (last = "recut" => cutAgain = cutOut)

C8_Witness ==
    /\ last = "recut" /\ cutIn = EnumerateLabels(3, 3) /\ cutOrder = 0
    /\ cutOut = << <<>> >>

\* C9 as stated: local encoding, complete design, genotypes sorted by number
\* of mutated sites: X is lower triangular with ones on the diagonal.
C9_SortedIsLowerTriangular ==
    (model = "local" /\ pc = "ready" /\ SortedByMutationCount(genotypes)) =>
        LowerUnitTriangular(X)

\* C9 amended: local encoding, complete design, genotypes sorted by number of
\* mutated sites: X[i][j] = 0 for every label j with more sites than
\* genotype i has mutations, X[i][j] = 1 for the label of exactly the
\* mutated sites of genotype i; X is lower triangular with ones on the
\* diagonal when the i-th genotype is mutated at exactly the sites of the
\* i-th label.
C9_SortedIsBlockTriangular ==
    (model = "local" /\ pc = "ready" /\ SortedByMutationCount(genotypes)) =>
        /\ \A i \in 1..Len(genotypes), j \in 1..Len(labels) :
             /\ (Len(labels[j]) > MutationCount(genotypes[i]) => X[i][j] = 0)
             /\ (Range(labels[j]) = Mutated(genotypes[i]) => X[i][j] = 1)
        /\ (AlignedWithLabels(genotypes, labels) => LowerUnitTriangular(X))

C9_Witness ==
    /\ model = "local" /\ pc = "ready" /\ genotypes = FixtureGenotypes
    /\ SortedByMutationCount(genotypes)
    /\ ~AlignedWithLabels(genotypes, labels)

\* C10: GlobalEpistasisModel.fit_error: every entry of the error vector has
\* the square (1/N)^2 * (sum of the squared phenotype errors).
C10_GlobalErrorUniform ==
    (model = "global" /\ ErrorsFitted) =>
        \A l \in 1..Len(ierrors) :
            Square(ierrors[l]) =
                Rat(RatSum(Squares(errors), Len(errors))[1],
                    Len(genotypes) * Len(genotypes))

C10_Witness ==
    /\ model = "global" /\ ErrorsFitted /\ last = "fit_error"
    /\ \E g \in 1..Len(errors) : errors[g] # errors[1]
    /\ \E i \in 1..Len(X), j \in 1..Len(X) : X[i][j] = -1

====
